---- MODULE Spec2Model ----
(***************************************************************************)
(* Model of the CAGED visualizer's music-theory engine: the shape catalog, *)
(* the position resolver, the fretboard predicates, the overlap style, the *)
(* mode pattern calculation and the quiz question generator.               *)
(*                                                                         *)
(* JavaScript arrays are modelled as sequences; the element at JavaScript  *)
(* index i is At(a, i).  The value `undefined` and the number NaN are the  *)
(* markers Undefined and NaN.                                              *)
(***************************************************************************)
EXTENDS Integers, Sequences, FiniteSets, TLC

VARIABLES
    currentPage,        \* the page NavigationProvider shows
    selectedChord,      \* CAGEDState.selectedChord
    chordQuality,       \* CAGEDState.chordQuality
    currentPosition,    \* CAGEDState.currentPosition
    showAllShapes,      \* CAGEDState.showAllShapes
    showPentatonic,     \* CAGEDState.showPentatonic
    showAllNotes,       \* CAGEDState.showAllNotes
    probe,              \* the last call made into the engine by the current render
    lastEvent,          \* the last click or key press on the visualizer and the state it found
    modeCall,           \* the last call of calculateModePattern and what it returned
    modeState,          \* the ModeState of useModesState
    lastModeAction,     \* the last action dispatched on the modes page and the state it found
    quizConfig,         \* the preferences the quiz logic's QuizConfig is built from
    questions,          \* QuizSession.questions: the last list returned by generateQuestions
    isLoaded,           \* useQuizPreferences: the mount-time load has finished
    session,            \* the other fields of the QuizSession of useQuizState
    timers              \* the pending auto-advance timers, oldest first

cagedVars == <<selectedChord, chordQuality, currentPosition,
               showAllShapes, showPentatonic, showAllNotes>>
quizVars == <<quizConfig, questions, isLoaded, session, timers>>
\* what an event on the visualizer page leaves alone
modesVars == <<modeCall, modeState, lastModeAction>>
otherPages == <<currentPage, modesVars, quizConfig, questions, isLoaded, session, timers>>
vars == <<currentPage, selectedChord, chordQuality, currentPosition, showAllShapes,
          showPentatonic, showAllNotes, probe, lastEvent, modeCall, modeState, lastModeAction,
          quizConfig, questions, isLoaded, session, timers>>

----
\* Bounds of the model

\* largest fret number a caller asks the fretboard predicates about
MaxFret == 15
\* how far below the nut a caller asks the fretboard predicates about
BelowNut == 1
\* largest maxFrets argument given to calculateModePattern
MaxFretsArg == 15
\* largest questionCount of a quiz configuration
MaxQuestionCount == 2
\* largest number of auto-advance timers pending at once
MaxPendingTimers == 2
\* largest shift, up or down, given to transposeNote and transposeIntervals
MaxSemitones == 13

----
\* JavaScript values and arithmetic

Undefined == "undefined"
NaN == "NaN"

\* a[i] for a JavaScript array a: undefined outside the array
At(a, i) == IF i \in 0..(Len(a) - 1) THEN a[i + 1] ELSE Undefined

\* the JavaScript remainder a % b (b > 0): the sign follows the dividend
JsRem(a, b) == IF a >= 0 THEN a % b ELSE 0 - ((0 - a) % b)

\* Array.prototype.indexOf: the first index holding x, or -1
IndexOf(a, x) ==
    IF \E k \in 1..Len(a) : a[k] = x
    THEN (CHOOSE k \in 1..Len(a) : a[k] = x /\ \A m \in 1..(k - 1) : a[m] # x) - 1
    ELSE -1

\* Array.prototype.includes
Includes(a, x) == \E k \in 1..Len(a) : a[k] = x

\* the set of elements of an array
Elems(a) == {a[k] : k \in 1..Len(a)}

----
\* Shape catalog (constants/index.ts)

Chords == {"C", "A", "G", "E", "D"}
Qualities == {"major", "minor"}

TOTAL_FRETS == 15

STRING_TUNING == <<4, 11, 7, 2, 9, 4>>

CAGED_SHAPE_DATA ==
    [C |-> [color |-> "#FF6B6B", pattern |-> <<0, 1, 0, 2, 3, -1>>, rootNotes |-> <<4>>],
     A |-> [color |-> "#4ECDC4", pattern |-> <<0, 2, 2, 2, 0, -1>>, rootNotes |-> <<4>>],
     G |-> [color |-> "#45B7D1", pattern |-> <<3, 0, 0, 0, 2, 3>>, rootNotes |-> <<0, 5>>],
     E |-> [color |-> "#96CEB4", pattern |-> <<0, 0, 1, 2, 2, 0>>, rootNotes |-> <<0, 5>>],
     D |-> [color |-> "#FECA57", pattern |-> <<2, 3, 2, 0, -1, -1>>, rootNotes |-> <<3>>]]

CAGED_MINOR_SHAPE_DATA ==
    [C |-> [color |-> "#FF6B6B", pattern |-> <<0, 1, 0, 1, 3, -1>>, rootNotes |-> <<4>>],
     A |-> [color |-> "#4ECDC4", pattern |-> <<0, 1, 2, 2, 0, -1>>, rootNotes |-> <<4>>],
     G |-> [color |-> "#45B7D1", pattern |-> <<3, 0, 0, 3, 2, 3>>, rootNotes |-> <<0, 5>>],
     E |-> [color |-> "#96CEB4", pattern |-> <<0, 0, 0, 2, 2, 0>>, rootNotes |-> <<0, 5>>],
     D |-> [color |-> "#FECA57", pattern |-> <<1, 3, 2, 0, -1, -1>>, rootNotes |-> <<3>>]]

CAGED_SHAPES_BY_QUALITY ==
    [major |-> CAGED_SHAPE_DATA, minor |-> CAGED_MINOR_SHAPE_DATA]

CHROMATIC_VALUES == [C |-> 0, A |-> 9, G |-> 7, E |-> 4, D |-> 2]

\* Object.entries(CHROMATIC_VALUES) visits the keys in insertion order
CHROMATIC_KEYS == <<"C", "A", "G", "E", "D">>

NATURAL_STARTING_SHAPES == [C |-> "C", A |-> "A", G |-> "G", E |-> "E", D |-> "D"]

FULL_CAGED_SEQUENCE == <<"C", "A", "G", "E", "D">>

MAJOR_CHORD_INTERVALS == <<0, 4, 7>>
MINOR_CHORD_INTERVALS == <<0, 3, 7>>

----
\* Shape sequencing and position resolver

\* Array.prototype.slice(from, to)
Slice(a, from, to) == SubSeq(a, from + 1, to)

\* getCagedSequence that does not rotate the cycle
getCagedSequence_NoRotation(rootChord) == FULL_CAGED_SEQUENCE

\* getCagedSequence that starts one shape after the root's own
getCagedSequence_RootLast(rootChord) ==
    LET startShape == NATURAL_STARTING_SHAPES[rootChord]
        startIndex == IndexOf(FULL_CAGED_SEQUENCE, startShape) + 1
    IN  Slice(FULL_CAGED_SEQUENCE, startIndex, Len(FULL_CAGED_SEQUENCE))
            \o Slice(FULL_CAGED_SEQUENCE, 0, startIndex)

getCagedSequence(rootChord) ==
    LET startShape == NATURAL_STARTING_SHAPES[rootChord]
        startIndex == IndexOf(FULL_CAGED_SEQUENCE, startShape)
    IN  Slice(FULL_CAGED_SEQUENCE, startIndex, Len(FULL_CAGED_SEQUENCE))
            \o Slice(FULL_CAGED_SEQUENCE, 0, startIndex)

\* shapeOffset without the reduction modulo 12
shapeOffset_NoWrap(targetValue, shapeRoot) == targetValue - shapeRoot + 12

\* shapeOffset with the operands exchanged
shapeOffset_Swapped(targetValue, shapeRoot) == JsRem(shapeRoot - targetValue + 12, 12)

\* the fret offset of one shape for a target root
shapeOffset(targetValue, shapeRoot) == JsRem(targetValue - shapeRoot + 12, 12)

\* the table { shapeKey: offset } built for the selected chord
shapePositions(chord) ==
    LET targetValue == CHROMATIC_VALUES[chord]
    IN  [shapeKey \in Elems(CHROMATIC_KEYS) |->
            shapeOffset(targetValue, CHROMATIC_VALUES[shapeKey])]

\* fretOfPlayed that leaves an open string open when the shape is moved up
fretOfPlayed_NoBarre(patternFret, basePosition) ==
    IF patternFret = 0 THEN 0 ELSE patternFret + basePosition

\* fretOfPlayed that counts the barre fret twice
fretOfPlayed_BarreOff(patternFret, basePosition) ==
    IF patternFret = 0 /\ basePosition = 0 THEN 0
    ELSE IF patternFret = 0 /\ basePosition > 0 THEN basePosition
    ELSE patternFret + basePosition + 1

\* the three branches of getShapeFret for a played string
fretOfPlayed(patternFret, basePosition) ==
    IF patternFret = 0 /\ basePosition = 0 THEN 0
    ELSE IF patternFret = 0 /\ basePosition > 0 THEN basePosition
    ELSE patternFret + basePosition

getShapeFret(quality, shapeKey, stringIndex, basePosition) ==
    LET shape == CAGED_SHAPES_BY_QUALITY[quality][shapeKey]
        patternFret == At(shape.pattern, stringIndex)
    IN  IF patternFret = -1 THEN -1
        ELSE fretOfPlayed(patternFret, basePosition)

----
\* Fretboard predicates (useCAGEDLogic.ts, CAGEDVisualizer)

\* dotAt without the shapeFret > 0 guard
dotAt_NoGuard(shapeFret, fretNumber) == shapeFret = fretNumber

\* the condition under which a shape puts a dot on the queried fret
dotAt(shapeFret, fretNumber) == shapeFret = fretNumber /\ shapeFret > 0

RECURSIVE shapesFrom(_, _, _, _, _, _)
\* the loop of getShapesAtPosition from index k of cagedSequence on
shapesFrom(chord, quality, cagedSequence, stringIndex, fretNumber, k) ==
    IF k > Len(cagedSequence) THEN <<>>
    ELSE LET shapeKey == cagedSequence[k]
             basePosition == shapePositions(chord)[shapeKey]
             shapeFret == getShapeFret(quality, shapeKey, stringIndex, basePosition)
             rest == shapesFrom(chord, quality, cagedSequence, stringIndex, fretNumber, k + 1)
         IN  IF dotAt(shapeFret, fretNumber) THEN <<shapeKey>> \o rest ELSE rest

\* getShapesAtPosition that skips the first shape of the sequence
getShapesAtPosition_SkipFirst(chord, quality, cagedSequence, stringIndex, fretNumber) ==
    shapesFrom(chord, quality, cagedSequence, stringIndex, fretNumber, 2)

getShapesAtPosition(chord, quality, cagedSequence, stringIndex, fretNumber) ==
    shapesFrom(chord, quality, cagedSequence, stringIndex, fretNumber, 1)

\* the style descriptor: one flat colour, a two-way split, or N bands
createGradientStyle(quality, shapes) ==
    LET shapeData == CAGED_SHAPES_BY_QUALITY[quality]
        colors == [k \in 1..Len(shapes) |-> shapeData[shapes[k]].color]
    IN  IF Len(shapes) = 1 THEN [kind |-> "flat", colors |-> colors]
        ELSE IF Len(shapes) = 2 THEN [kind |-> "split", colors |-> colors]
        ELSE IF Len(shapes) > 2 THEN [kind |-> "bands", colors |-> colors]
        ELSE [kind |-> Undefined, colors |-> <<>>]

shouldShowDot(chord, quality, position, showAll, stringIndex, fretNumber) ==
    LET cagedSequence == getCagedSequence(chord)
        currentShape == At(cagedSequence, position)
    IN  IF showAll
        THEN Len(getShapesAtPosition(chord, quality, cagedSequence, stringIndex, fretNumber)) > 0
        ELSE LET basePosition == shapePositions(chord)[currentShape]
                 shapeFret == getShapeFret(quality, currentShape, stringIndex, basePosition)
             IN  dotAt(shapeFret, fretNumber)

getDotStyle(chord, quality, position, showAll, stringIndex, fretNumber) ==
    LET cagedSequence == getCagedSequence(chord)
        currentShape == At(cagedSequence, position)
    IN  IF showAll
        THEN createGradientStyle(quality,
                getShapesAtPosition(chord, quality, cagedSequence, stringIndex, fretNumber))
        ELSE [kind |-> "flat", colors |-> <<CAGED_SHAPE_DATA[currentShape].color>>]

isRootNote(chord, quality, position, showAll, stringIndex, fretNumber) ==
    LET cagedSequence == getCagedSequence(chord)
        currentShape == At(cagedSequence, position)
    IN  IF showAll
        THEN LET shapesHere == getShapesAtPosition(chord, quality, cagedSequence,
                                                   stringIndex, fretNumber)
             IN  \E k \in 1..Len(shapesHere) :
                    Includes(CAGED_SHAPE_DATA[shapesHere[k]].rootNotes, stringIndex)
        ELSE Includes(CAGED_SHAPE_DATA[currentShape].rootNotes, stringIndex)
             /\ shouldShowDot(chord, quality, position, showAll, stringIndex, fretNumber)

----
\* Pitch-class arithmetic of the modes system (musicTheory.ts)

CHROMATIC_NOTES == <<"C", "C#", "D", "D#", "E", "F", "F#", "G", "G#", "A", "A#", "B">>

NOTE_TO_NUMBER ==
    ("C" :> 0) @@ ("C#" :> 1) @@ ("D" :> 2) @@ ("D#" :> 3) @@ ("E" :> 4) @@ ("F" :> 5)
    @@ ("F#" :> 6) @@ ("G" :> 7) @@ ("G#" :> 8) @@ ("A" :> 9) @@ ("A#" :> 10) @@ ("B" :> 11)

\* low E to high E
STANDARD_TUNING == <<4, 9, 2, 7, 11, 4>>

noteToNumber(note) ==
    IF note \in DOMAIN NOTE_TO_NUMBER THEN NOTE_TO_NUMBER[note] ELSE Undefined

numberToNote(num) ==
    LET normalizedNum == JsRem(JsRem(num, 12) + 12, 12)
    IN  At(CHROMATIC_NOTES, normalizedNum)

getInterval(fromNote, toNote) ==
    LET from == noteToNumber(fromNote)
        to == noteToNumber(toNote)
    IN  JsRem(JsRem(to - from, 12) + 12, 12)

transposeNote(note, semitones) ==
    LET noteNum == noteToNumber(note)
        transposed == JsRem(noteNum + semitones, 12)
    IN  numberToNote(transposed)

transposeIntervals(intervals, semitones) ==
    [k \in 1..Len(intervals) |-> JsRem(intervals[k] + semitones, 12)]

\* getNoteAtFret that reads the open strings in the visualizer's high-to-low order
getNoteAtFret_HighToLow(stringIndex, fretNumber) ==
    LET openStringNote == At(STRING_TUNING, stringIndex)
        noteAtFret == JsRem(openStringNote + fretNumber, 12)
    IN  numberToNote(noteAtFret)

getNoteAtFret(stringIndex, fretNumber) ==
    LET openStringNote == At(STANDARD_TUNING, stringIndex)
        noteAtFret == JsRem(openStringNote + fretNumber, 12)
    IN  numberToNote(noteAtFret)

----
\* Mode catalog and mode pattern calculation (modes constants, modeCalculations)

ALL_MODES == <<"ionian", "dorian", "phrygian", "lydian", "mixolydian", "aeolian", "locrian">>

MODE_INTERVALS ==
    [ionian     |-> <<0, 2, 4, 5, 7, 9, 11>>,
     dorian     |-> <<0, 2, 3, 5, 7, 9, 10>>,
     phrygian   |-> <<0, 1, 3, 5, 7, 8, 10>>,
     lydian     |-> <<0, 2, 4, 6, 7, 9, 11>>,
     mixolydian |-> <<0, 2, 4, 5, 7, 9, 10>>,
     aeolian    |-> <<0, 2, 3, 5, 7, 8, 10>>,
     locrian    |-> <<0, 1, 3, 5, 6, 8, 10>>]

\* an unknown root reads undefined from the table, and interval + undefined is NaN
calculateModeIntervals(mode, rootNote) ==
    LET baseIntervals == MODE_INTERVALS[mode]
        rootNumber == noteToNumber(rootNote)
    IN  IF rootNote \in DOMAIN NOTE_TO_NUMBER
        THEN transposeIntervals(baseIntervals, rootNumber)
        ELSE [k \in 1..Len(baseIntervals) |-> NaN]

\* positionsAtCell that records the transposed interval, the note's own pitch class
positionsAtCell_Transposed(mode, modeIntervals, stringIndex, fretNumber) ==
    LET noteAtPosition == getNoteAtFret(stringIndex, fretNumber)
        noteNumber == noteToNumber(noteAtPosition)
        intervalIndex == IndexOf(modeIntervals, noteNumber)
    IN  IF intervalIndex # -1
        THEN LET originalInterval == At(modeIntervals, intervalIndex)
             IN  <<[fret |-> fretNumber,
                    string |-> stringIndex,
                    note |-> noteAtPosition,
                    interval |-> originalInterval,
                    isRoot |-> (originalInterval = 0)]>>
        ELSE <<>>

\* the body of the inner loop: the positions pushed for one cell
positionsAtCell(mode, modeIntervals, stringIndex, fretNumber) ==
    LET noteAtPosition == getNoteAtFret(stringIndex, fretNumber)
        noteNumber == noteToNumber(noteAtPosition)
        intervalIndex == IndexOf(modeIntervals, noteNumber)
    IN  IF intervalIndex # -1
        THEN LET originalInterval == At(MODE_INTERVALS[mode], intervalIndex)
             IN  <<[fret |-> fretNumber,
                    string |-> stringIndex,
                    note |-> noteAtPosition,
                    interval |-> originalInterval,
                    isRoot |-> (originalInterval = 0)]>>
        ELSE <<>>

RECURSIVE fretLoop(_, _, _, _, _)
\* the inner loop, from fretNumber up to maxFrets
fretLoop(mode, modeIntervals, stringIndex, fretNumber, maxFrets) ==
    IF fretNumber > maxFrets THEN <<>>
    ELSE positionsAtCell(mode, modeIntervals, stringIndex, fretNumber)
         \o fretLoop(mode, modeIntervals, stringIndex, fretNumber + 1, maxFrets)

RECURSIVE stringLoop(_, _, _, _)
\* the outer loop, from stringIndex up to the last string
stringLoop(mode, modeIntervals, stringIndex, maxFrets) ==
    IF stringIndex >= Len(STANDARD_TUNING) THEN <<>>
    ELSE fretLoop(mode, modeIntervals, stringIndex, 0, maxFrets)
         \o stringLoop(mode, modeIntervals, stringIndex + 1, maxFrets)

\* the default of the maxFrets parameter
DEFAULT_MAX_FRETS == 15

\* FRETBOARD_CONSTANTS.MAX_FRET
MAX_FRET == 15

\* indexOf compares with ===, which NaN never satisfies: with the intervals of
\* an unknown root the loops find no note and push no position
calculateModePattern(mode, rootNote, maxFrets) ==
    LET modeIntervals == calculateModeIntervals(mode, rootNote)
    IN  [mode |-> mode,
         rootNote |-> rootNote,
         positions |-> IF rootNote \in DOMAIN NOTE_TO_NUMBER
                       THEN stringLoop(mode, modeIntervals, 0, maxFrets)
                       ELSE <<>>]

\* Array.prototype.filter(pos => pos.isRoot)
RECURSIVE filterRoots(_)
filterRoots(positions) ==
    IF positions = <<>> THEN <<>>
    ELSE IF Head(positions).isRoot
         THEN <<Head(positions)>> \o filterRoots(Tail(positions))
         ELSE filterRoots(Tail(positions))

getRootPositions(mode, rootNote, maxFrets) ==
    LET pattern == calculateModePattern(mode, rootNote, maxFrets)
    IN  filterRoots(pattern.positions)

\* Math.min(...) and Math.max(...) of the frets of a non-empty list of positions
minFretOf(positions) ==
    CHOOSE f \in {positions[k].fret : k \in 1..Len(positions)} :
        \A k \in 1..Len(positions) : f <= positions[k].fret

maxFretOf(positions) ==
    CHOOSE f \in {positions[k].fret : k \in 1..Len(positions)} :
        \A k \in 1..Len(positions) : f >= positions[k].fret

\* Math.max and Math.min of two numbers
Max2(a, b) == IF a >= b THEN a ELSE b
Min2(a, b) == IF a <= b THEN a ELSE b

\* getOptimalDisplayRange that does not clamp the padded range to the neck
getOptimalDisplayRange_NoClamp(mode, rootNote) ==
    LET rootPositions == getRootPositions(mode, rootNote, DEFAULT_MAX_FRETS)
    IN  IF Len(rootPositions) = 0
        THEN [startFret |-> 0, endFret |-> MAX_FRET]
        ELSE LET minFret == minFretOf(rootPositions)
                 maxFret == maxFretOf(rootPositions)
                 padding == 2
             IN  [startFret |-> minFret - padding, endFret |-> maxFret + padding]

\* rootPositions is getModeInfo(mode, rootNote).rootPositions
getOptimalDisplayRange(mode, rootNote) ==
    LET rootPositions == getRootPositions(mode, rootNote, DEFAULT_MAX_FRETS)
    IN  IF Len(rootPositions) = 0
        THEN [startFret |-> 0, endFret |-> MAX_FRET]
        ELSE LET minFret == minFretOf(rootPositions)
                 maxFret == maxFretOf(rootPositions)
                 padding == 2
                 startFret == Max2(0, minFret - padding)
                 endFret == Min2(MAX_FRET, maxFret + padding)
             IN  [startFret |-> startFret, endFret |-> endFret]

----
\* Quiz question generator (useQuizLogic)

\* Math.random() is explored at the two ends of [0, 1): 0 and the largest value below 1
Rand == {"low", "high"}

\* Math.floor(Math.random() * n)
randomIndex(level, n) == IF level = "low" \/ n = 0 THEN 0 ELSE n - 1

\* the values Math.floor(Math.random() * n) can take
RandomIndexes(n) == {randomIndex(level, n) : level \in Rand}

\* [a[i], a[j]] = [a[j], a[i]] on JavaScript indices
swap(a, i, j) == [a EXCEPT ![i + 1] = a[j + 1], ![j + 1] = a[i + 1]]

RECURSIVE shuffleFrom(_, _, _)
\* the Fisher-Yates loop from index i down to 1; js[i] is the j drawn at step i
shuffleFrom(shuffled, i, js) ==
    IF i > 0
    THEN shuffleFrom(swap(shuffled, i, js[i]), i - 1, js)
    ELSE shuffled

shuffleArray(array, js) == shuffleFrom(array, Len(array) - 1, js)

\* the draws a shuffle of n elements can make: j = Math.floor(Math.random() * (i + 1))
ShuffleDraws(n) ==
    {js \in [1..(n - 1) -> 0..(n - 1)] : \A i \in 1..(n - 1) : js[i] \in RandomIndexes(i + 1)}

generateAllChoices(allChords, js) == shuffleArray(allChords, js)

\* (CHROMATIC_VALUES[rootChord] - CHROMATIC_VALUES[shapeUsed] + 12) % 12: a key
\* the table does not have reads undefined, and the arithmetic then gives NaN
quizPosition(rootChord, shapeUsed) ==
    IF rootChord \in DOMAIN CHROMATIC_VALUES /\ shapeUsed \in DOMAIN CHROMATIC_VALUES
    THEN LET targetValue == CHROMATIC_VALUES[rootChord]
             shapeValue == CHROMATIC_VALUES[shapeUsed]
         IN  JsRem(targetValue - shapeValue + 12, 12)
    ELSE NaN

\* the random choices one iteration of the loop can make
QuestionDraws(config) ==
    [root : RandomIndexes(Len(config.allowedChords)),
     shape : RandomIndexes(Len(config.allowedShapes)),
     shuffle : ShuffleDraws(Len(config.allowedChords))]

\* makeQuestion that stores the shape as the correct answer
makeQuestion_AnswerIsShape(config, i, draw) ==
    LET rootChord == At(config.allowedChords, draw.root)
        shapeUsed == At(config.allowedShapes, draw.shape)
        position == quizPosition(rootChord, shapeUsed)
        allChoices == generateAllChoices(config.allowedChords, draw.shuffle)
    IN  [id |-> i + 1,
         rootChord |-> rootChord,
         shapeUsed |-> shapeUsed,
         position |-> position,
         choices |-> allChoices,
         correctAnswer |-> shapeUsed]

\* the question pushed by iteration i of the loop
makeQuestion(config, i, draw) ==
    LET rootChord == At(config.allowedChords, draw.root)
        shapeUsed == At(config.allowedShapes, draw.shape)
        position == quizPosition(rootChord, shapeUsed)
        allChoices == generateAllChoices(config.allowedChords, draw.shuffle)
    IN  [id |-> i + 1,
         rootChord |-> rootChord,
         shapeUsed |-> shapeUsed,
         position |-> position,
         choices |-> allChoices,
         correctAnswer |-> rootChord]

\* the list returned when iteration i makes the draws draws[i + 1]
generateQuestions(config, draws) ==
    [k \in 1..Len(draws) |-> makeQuestion(config, k - 1, draws[k])]

\* the number of iterations of the loop `for (i = 0; i < questionCount; i++)`
iterations(questionCount) == IF questionCount > 0 THEN questionCount ELSE 0

DEFAULT_QUIZ_CONFIG ==
    [questionCount |-> 5,
     allowedChords |-> <<"C", "A", "G", "E", "D">>,
     allowedShapes |-> <<"C", "A", "G", "E", "D">>]

\* the chord lists a preference is set to: none, a pair, the beginner preset,
\* all five
ChordLists == {<<>>, <<"A", "E">>, <<"C", "G", "D">>, DEFAULT_QUIZ_CONFIG.allowedChords}

validateAnswer(question, selectedAnswer) == question.correctAnswer = selectedAnswer

\* the answer the user picks: right for a question about A, wrong for the others
AnswerInputs == {"A"}

validateQuizConfig(config) ==
    /\ config.questionCount > 0
    /\ Len(config.allowedChords) >= 2
    /\ Len(config.allowedShapes) >= 1
    /\ Len(config.allowedChords) <= 5
    /\ Len(config.allowedShapes) <= 5

----
\* Quiz preferences (useQuizPreferences)

QuizModes == {"major", "minor", "mixed"}

\* the quiz mode of DEFAULT_QUIZ_CONFIG in the version of constants/quizConfig
\* that useQuizPreferences imports: a QuizMode, as the QuizConfig type requires
DEFAULT_QUIZ_MODE == "major"

DEFAULT_PREFERENCES ==
    [quizMode |-> DEFAULT_QUIZ_MODE,
     questionCount |-> DEFAULT_QUIZ_CONFIG.questionCount,
     allowedChords |-> DEFAULT_QUIZ_CONFIG.allowedChords,
     allowedShapes |-> DEFAULT_QUIZ_CONFIG.allowedShapes]

\* localStorage holds no value under the key
NoStoredValue == [kind |-> "none"]

\* the objects localStorage can hold under the key: written by the page or by
\* anyone else, with a quiz mode, a question count and chord lists of either kind
StoredObjects ==
    [kind : {"object"},
     quizMode : {"major", "jazz"},
     questionCount : {0, 1, MaxQuestionCount},
     allowedChords : {<<>>, <<"A", "E">>, <<"X", "C">>},
     allowedShapes : {<<>>, <<"C">>, <<"H">>}]

\* the text under the key is not JSON: JSON.parse throws
MalformedJson == [kind |-> "malformed"]

\* the text under the key is JSON for something that is not an object
NotAnObject == [kind |-> "number"]

\* localStorage.getItem throws
ReadThrows == [kind |-> "readThrows"]

StoredValues == {NoStoredValue, MalformedJson, NotAnObject, ReadThrows} \cup StoredObjects

isValidPreferences(obj) ==
    /\ obj.quizMode \in QuizModes
    /\ obj.questionCount > 0
    /\ Len(obj.allowedChords) > 0
    /\ Len(obj.allowedShapes) > 0

\* the preferences object JSON.parse gives for a stored object
parsedPreferences(stored) ==
    [quizMode |-> stored.quizMode,
     questionCount |-> stored.questionCount,
     allowedChords |-> stored.allowedChords,
     allowedShapes |-> stored.allowedShapes]

\* the preferences in memory after savePreferences: localStorage.setItem
\* throwing is caught before setPreferences is reached
savePreferences(preferences, newPreferences, writeThrows) ==
    IF writeThrows THEN preferences ELSE newPreferences

loadedPreferences_NoValidation(preferences, stored, writeThrows) ==
    IF stored.kind = "object"
    THEN parsedPreferences(stored)
    ELSE savePreferences(preferences, DEFAULT_PREFERENCES, writeThrows)

\* the preferences in memory after the load effect, for a stored value and for
\* localStorage.setItem throwing or not
loadedPreferences(preferences, stored, writeThrows) ==
    IF stored.kind = "object" /\ isValidPreferences(stored)
    THEN parsedPreferences(stored)
    ELSE savePreferences(preferences, DEFAULT_PREFERENCES, writeThrows)

----
\* Quiz session (useQuizState)

initialQuizState ==
    [answers |-> <<>>,
     currentQuestionIndex |-> 0,
     score |-> 0,
     totalQuestions |-> 0,
     isActive |-> FALSE,
     isCompleted |-> FALSE]

startQuiz(newQuestions) ==
    [initialQuizState EXCEPT !.totalQuestions = Len(newQuestions), !.isActive = TRUE]

\* a completed session is immutable
answerQuestion(state, answer) ==
    IF state.isCompleted THEN state
    ELSE [state EXCEPT !.answers = Append(@, answer),
                       !.score = IF answer.isCorrect THEN @ + 1 ELSE @]

nextQuestion(state) ==
    IF state.isCompleted THEN state
    ELSE [state EXCEPT !.currentQuestionIndex = @ + 1]

finishQuiz(state) ==
    IF state.isCompleted THEN state
    ELSE [state EXCEPT !.isActive = FALSE, !.isCompleted = TRUE]

----
\* Modes state (useModesState)

\* the value of a flag field with its typeof: the reducer receives stored and
\* imported states, whose fields can hold any JSON value
JsBoolean(b) == [typeof |-> "boolean", value |-> b]

\* a flag value that JSON can hold and that is no boolean
JsText == [typeof |-> "string", value |-> "yes"]

FlagValues == {JsBoolean(TRUE), JsBoolean(FALSE), JsText}

\* the operator ! of JavaScript: a non-empty string counts as true
jsNot(v) == JsBoolean(IF v.typeof = "boolean" THEN ~v.value ELSE FALSE)

\* the comparison === of two flag values
sameFlag(a, b) == a.typeof = b.typeof /\ a.value = b.value

DEFAULT_MODE_STATE ==
    [currentMode |-> "ionian",
     rootPosition |-> 0,
     showNoteNames |-> JsBoolean(TRUE),
     highlightRoot |-> JsBoolean(TRUE)]

validateModeState(state) ==
    /\ Includes(ALL_MODES, state.currentMode)
    /\ ~(state.rootPosition < 0 \/ state.rootPosition > 11)
    /\ state.showNoteNames.typeof = "boolean"
    /\ state.highlightRoot.typeof = "boolean"

\* modeStateReducer whose SET_MODE also moves the root back to the open position
modeStateReducer_ModeResetsRoot(state, action) ==
    CASE action.type = "SET_MODE" ->
            IF ~Includes(ALL_MODES, action.payload) THEN state
            ELSE [state EXCEPT !.currentMode = action.payload, !.rootPosition = 0]
      [] action.type = "SET_ROOT_POSITION" ->
            IF action.payload < 0 \/ action.payload > 11 THEN state
            ELSE [state EXCEPT !.rootPosition = action.payload]
      [] action.type = "SET_ROOT_NOTE" ->
            IF ~Includes(CHROMATIC_NOTES, action.payload) THEN state
            ELSE [state EXCEPT !.rootPosition = IndexOf(CHROMATIC_NOTES, action.payload)]
      [] action.type = "TOGGLE_NOTE_NAMES" ->
            [state EXCEPT !.showNoteNames = jsNot(state.showNoteNames)]
      [] action.type = "TOGGLE_HIGHLIGHT_ROOT" ->
            [state EXCEPT !.highlightRoot = jsNot(state.highlightRoot)]
      [] action.type = "RESET_STATE" -> DEFAULT_MODE_STATE
      [] action.type = "SET_FULL_STATE" ->
            IF \/ ~Includes(ALL_MODES, action.payload.currentMode)
               \/ action.payload.rootPosition < 0
               \/ action.payload.rootPosition > 11
            THEN state
            ELSE action.payload
      [] OTHER -> state

modeStateReducer(state, action) ==
    CASE action.type = "SET_MODE" ->
            IF ~Includes(ALL_MODES, action.payload) THEN state
            ELSE [state EXCEPT !.currentMode = action.payload]
      [] action.type = "SET_ROOT_POSITION" ->
            IF action.payload < 0 \/ action.payload > 11 THEN state
            ELSE [state EXCEPT !.rootPosition = action.payload]
      [] action.type = "SET_ROOT_NOTE" ->
            IF ~Includes(CHROMATIC_NOTES, action.payload) THEN state
            ELSE [state EXCEPT !.rootPosition = IndexOf(CHROMATIC_NOTES, action.payload)]
      [] action.type = "TOGGLE_NOTE_NAMES" ->
            [state EXCEPT !.showNoteNames = jsNot(state.showNoteNames)]
      [] action.type = "TOGGLE_HIGHLIGHT_ROOT" ->
            [state EXCEPT !.highlightRoot = jsNot(state.highlightRoot)]
      [] action.type = "RESET_STATE" -> DEFAULT_MODE_STATE
      [] action.type = "SET_FULL_STATE" ->
            IF \/ ~Includes(ALL_MODES, action.payload.currentMode)
               \/ action.payload.rootPosition < 0
               \/ action.payload.rootPosition > 11
            THEN state
            ELSE action.payload
      [] OTHER -> state

\* the note names a caller passes: the 12 of the chromatic table and others
NoteNames == Elems(CHROMATIC_NOTES) \cup {"H", "Db"}

\* the payloads a caller passes: the valid ones and others
ModePayloads == Elems(ALL_MODES) \cup {"blues"}
RootPositionPayloads == (0 - 1)..12
FullStatePayloads ==
    [currentMode : {"dorian", "blues"},
     rootPosition : {0 - 1, 5, 12},
     showNoteNames : FlagValues,
     highlightRoot : FlagValues]

----
\* Initial state

Pages == {"caged", "quiz", "modes"}

NoProbe == [kind |-> "none"]
NoEvent == [kind |-> "none"]
NoModeCall == [kind |-> "none"]
NoModeAction == [kind |-> "none"]

\* initialState of useCAGEDState
InitCaged ==
    /\ selectedChord = "C"
    /\ chordQuality = "major"
    /\ currentPosition = 0
    /\ showAllShapes = FALSE
    /\ showPentatonic = FALSE
    /\ showAllNotes = FALSE

Init ==
    /\ currentPage = "caged"
    /\ InitCaged
    /\ probe = NoProbe
    /\ lastEvent = NoEvent
    /\ modeCall = NoModeCall
    /\ modeState = DEFAULT_MODE_STATE
    /\ lastModeAction = NoModeAction
    /\ quizConfig = DEFAULT_PREFERENCES
    /\ questions = <<>>
    /\ isLoaded = FALSE
    /\ session = initialQuizState
    /\ timers = <<>>

----
\* Navigation: App renders only the component of the current page, so the
\* state of the page that is left is discarded and the page that is entered
\* starts from its initial state: the quiz page starts from the default
\* preferences, not yet loaded, and the timers of the page that is left find
\* no component to act on

NavigateTo ==
    \E page \in Pages :
        /\ page # currentPage
        /\ currentPage' = page
        /\ selectedChord' = "C"
        /\ chordQuality' = "major"
        /\ currentPosition' = 0
        /\ showAllShapes' = FALSE
        /\ showPentatonic' = FALSE
        /\ showAllNotes' = FALSE
        /\ probe' = NoProbe
        /\ lastEvent' = NoEvent
        /\ modeCall' = NoModeCall
        /\ modeState' = DEFAULT_MODE_STATE
        /\ lastModeAction' = NoModeAction
        /\ questions' = <<>>
        /\ quizConfig' = DEFAULT_PREFERENCES
        /\ isLoaded' = FALSE
        /\ session' = initialQuizState
        /\ timers' = <<>>

----
\* cagedReducer: every dispatch re-renders, which discards the calls of the
\* previous render

\* the state object the reducer is given
cagedState ==
    [selectedChord |-> selectedChord,
     chordQuality |-> chordQuality,
     currentPosition |-> currentPosition,
     showAllShapes |-> showAllShapes,
     showPentatonic |-> showPentatonic,
     showAllNotes |-> showAllNotes]

\* cagedReducer whose NEXT_POSITION and PREVIOUS_POSITION do not wrap around
cagedReducer_NoWrap(state, action) ==
    CASE action.type = "SET_CHORD" ->
            [state EXCEPT !.selectedChord = action.payload, !.currentPosition = 0]
      [] action.type = "SET_CHORD_QUALITY" ->
            [state EXCEPT !.chordQuality = action.payload, !.currentPosition = 0]
      [] action.type = "NEXT_POSITION" ->
            [state EXCEPT !.currentPosition = state.currentPosition + 1]
      [] action.type = "PREVIOUS_POSITION" ->
            [state EXCEPT !.currentPosition = state.currentPosition - 1]
      [] action.type = "SET_POSITION" ->
            [state EXCEPT !.currentPosition = action.payload]
      [] action.type = "TOGGLE_SHOW_ALL_SHAPES" ->
            [state EXCEPT !.showAllShapes = ~state.showAllShapes]
      [] action.type = "TOGGLE_SHOW_PENTATONIC" ->
            [state EXCEPT !.showPentatonic = ~state.showPentatonic]
      [] action.type = "TOGGLE_SHOW_ALL_NOTES" ->
            [state EXCEPT !.showAllNotes = ~state.showAllNotes]
      [] OTHER -> state

\* cagedReducer whose SET_CHORD and SET_CHORD_QUALITY keep the position
cagedReducer_KeepPosition(state, action) ==
    CASE action.type = "SET_CHORD" ->
            [state EXCEPT !.selectedChord = action.payload]
      [] action.type = "SET_CHORD_QUALITY" ->
            [state EXCEPT !.chordQuality = action.payload]
      [] action.type = "NEXT_POSITION" ->
            [state EXCEPT !.currentPosition =
                JsRem(state.currentPosition + 1, action.payload.sequenceLength)]
      [] action.type = "PREVIOUS_POSITION" ->
            [state EXCEPT !.currentPosition =
                JsRem(state.currentPosition - 1 + action.payload.sequenceLength,
                      action.payload.sequenceLength)]
      [] action.type = "SET_POSITION" ->
            [state EXCEPT !.currentPosition = action.payload]
      [] action.type = "TOGGLE_SHOW_ALL_SHAPES" ->
            [state EXCEPT !.showAllShapes = ~state.showAllShapes]
      [] action.type = "TOGGLE_SHOW_PENTATONIC" ->
            [state EXCEPT !.showPentatonic = ~state.showPentatonic]
      [] action.type = "TOGGLE_SHOW_ALL_NOTES" ->
            [state EXCEPT !.showAllNotes = ~state.showAllNotes]
      [] OTHER -> state

cagedReducer(state, action) ==
    CASE action.type = "SET_CHORD" ->
            [state EXCEPT !.selectedChord = action.payload, !.currentPosition = 0]
      [] action.type = "SET_CHORD_QUALITY" ->
            [state EXCEPT !.chordQuality = action.payload, !.currentPosition = 0]
      [] action.type = "NEXT_POSITION" ->
            [state EXCEPT !.currentPosition =
                JsRem(state.currentPosition + 1, action.payload.sequenceLength)]
      [] action.type = "PREVIOUS_POSITION" ->
            [state EXCEPT !.currentPosition =
                JsRem(state.currentPosition - 1 + action.payload.sequenceLength,
                      action.payload.sequenceLength)]
      [] action.type = "SET_POSITION" ->
            [state EXCEPT !.currentPosition = action.payload]
      [] action.type = "TOGGLE_SHOW_ALL_SHAPES" ->
            [state EXCEPT !.showAllShapes = ~state.showAllShapes]
      [] action.type = "TOGGLE_SHOW_PENTATONIC" ->
            [state EXCEPT !.showPentatonic = ~state.showPentatonic]
      [] action.type = "TOGGLE_SHOW_ALL_NOTES" ->
            [state EXCEPT !.showAllNotes = ~state.showAllNotes]
      [] OTHER -> state

\* the action creators of useCAGEDState
setChord(chord) == [type |-> "SET_CHORD", payload |-> chord]
setChordQuality(quality) == [type |-> "SET_CHORD_QUALITY", payload |-> quality]
nextPosition(sequenceLength) ==
    [type |-> "NEXT_POSITION", payload |-> [sequenceLength |-> sequenceLength]]
previousPosition(sequenceLength) ==
    [type |-> "PREVIOUS_POSITION", payload |-> [sequenceLength |-> sequenceLength]]
setPosition(position) == [type |-> "SET_POSITION", payload |-> position]
toggleShowAllShapes == [type |-> "TOGGLE_SHOW_ALL_SHAPES"]
toggleShowPentatonic == [type |-> "TOGGLE_SHOW_PENTATONIC"]
toggleShowAllNotes == [type |-> "TOGGLE_SHOW_ALL_NOTES"]

\* the state after the actions of one event have been dispatched in order
RECURSIVE reduceAll(_, _)
reduceAll(state, actions) ==
    IF actions = <<>> THEN state
    ELSE reduceAll(cagedReducer(state, Head(actions)), Tail(actions))

\* the types of the actions of one event
actionTypes(actions) == [k \in 1..Len(actions) |-> actions[k].type]

\* one observation is held at a time: a call of the current render or the
\* last event
observationHeld == probe.kind # "none" \/ lastEvent.kind # "none"

\* one event on the visualizer page: its actions are reduced and the
\* component renders again.  The event is remembered with the state it found
\* when no observation is held; otherwise it discards the one that is held.
Handle(kind, key, target, modifier, actions) ==
    LET next == reduceAll(cagedState, actions)
    IN  /\ currentPage = "caged"
        /\ selectedChord' = next.selectedChord
        /\ chordQuality' = next.chordQuality
        /\ currentPosition' = next.currentPosition
        /\ showAllShapes' = next.showAllShapes
        /\ showPentatonic' = next.showPentatonic
        /\ showAllNotes' = next.showAllNotes
        /\ probe' = NoProbe
        /\ lastEvent' = IF observationHeld
                        THEN NoEvent
                        ELSE [kind |-> kind,
                              key |-> key,
                              target |-> target,
                              modifier |-> modifier,
                              dispatched |-> actionTypes(actions),
                              before |-> cagedState]
        /\ UNCHANGED otherPages

\* clicks on the controls of the page
SetChord ==
    \E payload \in Chords :
        Handle("click", "chord", "button", FALSE, <<setChord(payload)>>)

SetChordQuality ==
    \E payload \in Qualities :
        Handle("click", "quality", "button", FALSE, <<setChordQuality(payload)>>)

\* nextPosition is always dispatched with cagedSequence.length
NextPosition ==
    LET sequenceLength == Len(getCagedSequence(selectedChord))
    IN  Handle("click", "next", "button", FALSE, <<nextPosition(sequenceLength)>>)

PreviousPosition ==
    LET sequenceLength == Len(getCagedSequence(selectedChord))
    IN  Handle("click", "previous", "button", FALSE, <<previousPosition(sequenceLength)>>)

\* the position buttons dispatch the index of a shape of cagedSequence
SetPosition ==
    \E payload \in 0..(Len(getCagedSequence(selectedChord)) - 1) :
        Handle("click", "position", "button", FALSE, <<setPosition(payload)>>)

ToggleShowAllShapes ==
    Handle("click", "allShapes", "button", FALSE, <<toggleShowAllShapes>>)

ToggleShowPentatonic ==
    Handle("click", "pentatonic", "button", FALSE, <<toggleShowPentatonic>>)

ToggleShowAllNotes ==
    Handle("click", "allNotes", "button", FALSE, <<toggleShowAllNotes>>)

----
\* Keyboard navigation (handleKeyPress)

ArrowKeys == {"ArrowLeft", "ArrowRight"}
NumberKeys == {"1", "2", "3", "4", "5"}
\* the keys the handler has a case for, and one it has none for
Keys == ArrowKeys \cup NumberKeys \cup {" ", "s", "S", "n", "N", "x"}

\* event.target: the page body, an input or a textarea
Targets == {"body", "input", "textarea"}
InputTargets == {"input", "textarea"}

\* parseInt(event.key) of a number key
parseInt(key) ==
    CASE key = "1" -> 1 [] key = "2" -> 2 [] key = "3" -> 3 [] key = "4" -> 4 [] key = "5" -> 5

\* handleKeyPress that moves the position in every view mode
handleKeyPress_AnyMode(showAll, cagedSequenceLength, key, target, modifier) ==
    IF target \in InputTargets THEN <<>>
    ELSE CASE key = "ArrowLeft" -> <<previousPosition(cagedSequenceLength)>>
           [] key = "ArrowRight" -> <<nextPosition(cagedSequenceLength)>>
           [] key \in NumberKeys ->
                LET position == parseInt(key) - 1
                IN  IF position < cagedSequenceLength
                    THEN <<setPosition(position)>> ELSE <<>>
           [] key = " " -> <<toggleShowAllShapes>>
           [] key \in {"s", "S"} -> IF modifier THEN <<>> ELSE <<toggleShowPentatonic>>
           [] key \in {"n", "N"} -> IF modifier THEN <<>> ELSE <<toggleShowAllNotes>>
           [] OTHER -> <<>>

\* the actions handleKeyPress dispatches for one keydown event; modifier is
\* event.ctrlKey || event.metaKey
handleKeyPress(showAll, cagedSequenceLength, key, target, modifier) ==
    IF target \in InputTargets THEN <<>>
    ELSE CASE key = "ArrowLeft" ->
                IF ~showAll THEN <<previousPosition(cagedSequenceLength)>> ELSE <<>>
           [] key = "ArrowRight" ->
                IF ~showAll THEN <<nextPosition(cagedSequenceLength)>> ELSE <<>>
           [] key \in NumberKeys ->
                IF ~showAll
                THEN LET position == parseInt(key) - 1
                     IN  IF position < cagedSequenceLength
                         THEN <<setPosition(position)>> ELSE <<>>
                ELSE <<>>
           [] key = " " -> <<toggleShowAllShapes>>
           [] key \in {"s", "S"} -> IF modifier THEN <<>> ELSE <<toggleShowPentatonic>>
           [] key \in {"n", "N"} -> IF modifier THEN <<>> ELSE <<toggleShowAllNotes>>
           [] OTHER -> <<>>

\* a keydown event on the window while the visualizer is shown
KeyPress ==
    \E key \in Keys, target \in Targets, modifier \in BOOLEAN :
        Handle("key", key, target, modifier,
               handleKeyPress(showAllShapes, Len(getCagedSequence(selectedChord)),
                              key, target, modifier))

----
\* Calls into the engine made with the state of the current render.  The
\* result of a call does not depend on the calls made before it, so one call
\* is recorded per render, when no observation is held.

\* a caller asks the fretboard predicates about one cell
QueryCell ==
    \E stringIndex \in 0..5, fretNumber \in (0 - BelowNut)..MaxFret :
        /\ currentPage = "caged"
        /\ ~observationHeld
        /\ probe' =
            [kind |-> "cell",
             stringIndex |-> stringIndex,
             fretNumber |-> fretNumber,
             dot |-> shouldShowDot(selectedChord, chordQuality, currentPosition,
                                   showAllShapes, stringIndex, fretNumber),
             shapesHere |-> getShapesAtPosition(selectedChord, chordQuality,
                                getCagedSequence(selectedChord), stringIndex, fretNumber),
             isRoot |-> isRootNote(selectedChord, chordQuality, currentPosition,
                                   showAllShapes, stringIndex, fretNumber),
             style |-> getDotStyle(selectedChord, chordQuality, currentPosition,
                                   showAllShapes, stringIndex, fretNumber)]
        /\ UNCHANGED <<cagedVars, lastEvent, otherPages>>

\* a caller asks getShapeFret for the fret of one string of one shape
CallGetShapeFret ==
    \E shapeKey \in Chords, stringIndex \in 0..5, basePosition \in 0..11 :
        /\ currentPage = "caged"
        /\ ~observationHeld
        /\ probe' =
            [kind |-> "fret",
             shapeKey |-> shapeKey,
             stringIndex |-> stringIndex,
             basePosition |-> basePosition,
             patternFret |-> At(CAGED_SHAPES_BY_QUALITY[chordQuality][shapeKey].pattern,
                                stringIndex),
             fret |-> getShapeFret(chordQuality, shapeKey, stringIndex, basePosition)]
        /\ UNCHANGED <<cagedVars, lastEvent, otherPages>>

----
\* Dispatches on the modes page

\* one observation is held at a time on the modes page as well
modeObservationHeld == modeCall.kind # "none" \/ lastModeAction.kind # "none"

\* one dispatch to the reducer of useModesState
DispatchMode(action) ==
    /\ currentPage = "modes"
    /\ modeState' = modeStateReducer(modeState, action)
    /\ modeCall' = NoModeCall
    /\ lastModeAction' = IF modeObservationHeld
                         THEN NoModeAction
                         ELSE [kind |-> "dispatch",
                               type |-> action.type,
                               payload |-> IF "payload" \in DOMAIN action
                                           THEN <<action.payload>> ELSE <<>>,
                               before |-> modeState]
    /\ UNCHANGED <<currentPage, cagedVars, probe, lastEvent, quizVars>>

SetMode ==
    \E mode \in ModePayloads : DispatchMode([type |-> "SET_MODE", payload |-> mode])

SetRootPosition ==
    \E position \in RootPositionPayloads :
        DispatchMode([type |-> "SET_ROOT_POSITION", payload |-> position])

SetRootNote ==
    \E note \in NoteNames : DispatchMode([type |-> "SET_ROOT_NOTE", payload |-> note])

ToggleNoteNames == DispatchMode([type |-> "TOGGLE_NOTE_NAMES"])

ToggleHighlightRoot == DispatchMode([type |-> "TOGGLE_HIGHLIGHT_ROOT"])

ResetState == DispatchMode([type |-> "RESET_STATE"])

SetFullState ==
    \E state \in FullStatePayloads :
        DispatchMode([type |-> "SET_FULL_STATE", payload |-> state])

\* the navigation helpers compute the payload from the current state
NextMode ==
    LET currentIndex == IndexOf(ALL_MODES, modeState.currentMode)
        nextIndex == JsRem(currentIndex + 1, Len(ALL_MODES))
    IN  DispatchMode([type |-> "SET_MODE", payload |-> At(ALL_MODES, nextIndex)])

PreviousMode ==
    LET currentIndex == IndexOf(ALL_MODES, modeState.currentMode)
        prevIndex == JsRem(currentIndex - 1 + Len(ALL_MODES), Len(ALL_MODES))
    IN  DispatchMode([type |-> "SET_MODE", payload |-> At(ALL_MODES, prevIndex)])

NextRootPosition ==
    LET nextPos == JsRem(modeState.rootPosition + 1, 12)
    IN  DispatchMode([type |-> "SET_ROOT_POSITION", payload |-> nextPos])

PreviousRootPosition ==
    LET prevPos == JsRem(modeState.rootPosition - 1 + 12, 12)
    IN  DispatchMode([type |-> "SET_ROOT_POSITION", payload |-> prevPos])

----
\* The modes page computes the pattern of a mode at a root; the pattern does
\* not depend on the patterns computed before it, so one call is recorded
\* per visit of the page

\* no function of the modes engine throws: every call returns
CallCalculateModePattern ==
    \E mode \in Elems(ALL_MODES), rootNote \in NoteNames, maxFrets \in 0..MaxFretsArg :
        /\ currentPage = "modes"
        /\ ~modeObservationHeld
        /\ modeCall' = [kind |-> "pattern",
                        threw |-> FALSE,
                        maxFrets |-> maxFrets,
                        pattern |-> calculateModePattern(mode, rootNote, maxFrets)]
        /\ UNCHANGED <<currentPage, cagedVars, probe, lastEvent, modeState, lastModeAction,
                       quizVars>>

CallGetOptimalDisplayRange ==
    \E mode \in Elems(ALL_MODES), rootNote \in NoteNames :
        /\ currentPage = "modes"
        /\ ~modeObservationHeld
        /\ modeCall' = [kind |-> "displayRange",
                        threw |-> FALSE,
                        mode |-> mode,
                        rootNote |-> rootNote,
                        range |-> getOptimalDisplayRange(mode, rootNote)]
        /\ UNCHANGED <<currentPage, cagedVars, probe, lastEvent, modeState, lastModeAction,
                       quizVars>>

CallNoteToNumber ==
    \E note \in NoteNames :
        /\ currentPage = "modes"
        /\ ~modeObservationHeld
        /\ modeCall' = [kind |-> "noteToNumber",
                        threw |-> FALSE,
                        note |-> note,
                        value |-> noteToNumber(note)]
        /\ UNCHANGED <<currentPage, cagedVars, probe, lastEvent, modeState, lastModeAction,
                       quizVars>>

CallGetInterval ==
    \E fromNote \in Elems(CHROMATIC_NOTES), toNote \in Elems(CHROMATIC_NOTES) :
        /\ currentPage = "modes"
        /\ ~modeObservationHeld
        /\ modeCall' = [kind |-> "getInterval",
                        threw |-> FALSE,
                        fromNote |-> fromNote,
                        toNote |-> toNote,
                        value |-> getInterval(fromNote, toNote)]
        /\ UNCHANGED <<currentPage, cagedVars, probe, lastEvent, modeState, lastModeAction,
                       quizVars>>

CallTransposeNote ==
    \E note \in Elems(CHROMATIC_NOTES), semitones \in (0 - MaxSemitones)..MaxSemitones :
        /\ currentPage = "modes"
        /\ ~modeObservationHeld
        /\ modeCall' = [kind |-> "transposeNote",
                        threw |-> FALSE,
                        note |-> note,
                        semitones |-> semitones,
                        value |-> transposeNote(note, semitones)]
        /\ UNCHANGED <<currentPage, cagedVars, probe, lastEvent, modeState, lastModeAction,
                       quizVars>>

CallTransposeIntervals ==
    \E mode \in Elems(ALL_MODES), semitones \in (0 - MaxSemitones)..MaxSemitones :
        /\ currentPage = "modes"
        /\ ~modeObservationHeld
        /\ modeCall' = [kind |-> "transposeIntervals",
                        threw |-> FALSE,
                        intervals |-> MODE_INTERVALS[mode],
                        semitones |-> semitones,
                        value |-> transposeIntervals(MODE_INTERVALS[mode], semitones)]
        /\ UNCHANGED <<currentPage, cagedVars, probe, lastEvent, modeState, lastModeAction,
                       quizVars>>

----
\* The quiz page.  The mount-time load of the preferences runs before any
\* event of the user; the preferences are edited while no quiz is running.

\* the page shows the start screen
isIdle == ~session.isActive /\ ~session.isCompleted

\* the effect that loads the stored preferences when the page is mounted
LoadPreferences ==
    \E stored \in StoredValues, writeThrows \in BOOLEAN :
        /\ currentPage = "quiz"
        /\ ~isLoaded
        /\ quizConfig' = loadedPreferences(quizConfig, stored, writeThrows)
        /\ isLoaded' = TRUE
        /\ UNCHANGED <<currentPage, cagedVars, probe, lastEvent, modesVars, questions, session, timers>>

UpdateQuestionCount ==
    \E questionCount \in 0..MaxQuestionCount :
        /\ currentPage = "quiz"
        /\ isLoaded
        /\ isIdle
        /\ quizConfig' = [quizConfig EXCEPT !.questionCount = questionCount]
        /\ UNCHANGED <<currentPage, cagedVars, probe, lastEvent, modesVars, questions,
                       isLoaded, session, timers>>

UpdateAllowedChords ==
    \E allowedChords \in ChordLists :
        /\ currentPage = "quiz"
        /\ isLoaded
        /\ isIdle
        /\ quizConfig' = [quizConfig EXCEPT !.allowedChords = allowedChords]
        /\ UNCHANGED <<currentPage, cagedVars, probe, lastEvent, modesVars, questions,
                       isLoaded, session, timers>>

UpdateAllowedShapes ==
    \E allowedShapes \in ChordLists :
        /\ currentPage = "quiz"
        /\ isLoaded
        /\ isIdle
        /\ quizConfig' = [quizConfig EXCEPT !.allowedShapes = allowedShapes]
        /\ UNCHANGED <<currentPage, cagedVars, probe, lastEvent, modesVars, questions,
                       isLoaded, session, timers>>

\* startNewQuiz generates the questions of the current configuration and
\* starts a session with them; the page offers it when no quiz is running
StartNewQuiz ==
    /\ currentPage = "quiz"
    /\ isLoaded
    /\ ~session.isActive
    /\ quizConfig.questionCount <= MaxQuestionCount
    /\ \E draws \in [1..iterations(quizConfig.questionCount) -> QuestionDraws(quizConfig)] :
            /\ questions' = generateQuestions(quizConfig, draws)
            /\ session' = startQuiz(generateQuestions(quizConfig, draws))
    /\ UNCHANGED <<currentPage, cagedVars, probe, lastEvent, modesVars, quizConfig, isLoaded, timers>>

ResetQuiz ==
    /\ currentPage = "quiz"
    /\ isLoaded
    /\ questions' = <<>>
    /\ session' = initialQuizState
    /\ UNCHANGED <<currentPage, cagedVars, probe, lastEvent, modesVars, quizConfig, isLoaded, timers>>

\* `if (!currentQuestion) return`: the index reads a question of the list
hasCurrentQuestion == session.currentQuestionIndex \in 0..(Len(questions) - 1)

\* the question the page presents
currentQuestion == At(questions, session.currentQuestionIndex)

\* submitAnswer: records the answer and schedules the auto-advance, which
\* keeps the state of the render the answer was submitted in
SubmitAnswer ==
    \E selectedAnswer \in AnswerInputs :
        /\ currentPage = "quiz"
        /\ isLoaded
        /\ hasCurrentQuestion
        /\ Len(timers) < MaxPendingTimers
        /\ session' = answerQuestion(session,
                [questionId |-> currentQuestion.id,
                 selectedAnswer |-> selectedAnswer,
                 correctAnswer |-> currentQuestion.correctAnswer,
                 isCorrect |-> validateAnswer(currentQuestion, selectedAnswer)])
        /\ timers' = Append(timers, [currentQuestionIndex |-> session.currentQuestionIndex,
                                     totalQuestions |-> session.totalQuestions])
        /\ UNCHANGED <<currentPage, cagedVars, probe, lastEvent, modesVars, quizConfig, questions, isLoaded>>

\* the test of the timer callback with the bound one too high
isLastQuestion_OffByOne(captured) ==
    captured.currentQuestionIndex >= captured.totalQuestions

\* the test of the timer callback, on the state its submitAnswer captured
isLastQuestion(captured) ==
    captured.currentQuestionIndex + 1 >= captured.totalQuestions

\* the callback of the oldest timer, 1000 ms after its submitAnswer
AutoAdvance ==
    /\ currentPage = "quiz"
    /\ timers # <<>>
    /\ session' = IF isLastQuestion(Head(timers))
                   THEN finishQuiz(session)
                   ELSE nextQuestion(session)
    /\ timers' = Tail(timers)
    /\ UNCHANGED <<currentPage, cagedVars, probe, lastEvent, modesVars, quizConfig, questions, isLoaded>>

\* getResults: null until the quiz is completed
getResults ==
    IF ~session.isCompleted
    THEN [kind |-> "null"]
    ELSE [kind |-> "results",
          totalQuestions |-> session.totalQuestions,
          correctAnswers |-> session.score,
          answers |-> session.answers,
          questions |-> questions]

\* the user answers the question the page presents, after the timer of the
\* previous answer has fired
OrderlySubmit ==
    /\ session.isActive
    /\ timers = <<>>
    /\ SubmitAnswer

\* the user leaves the page only when no quiz is running
OrderlyNavigate ==
    /\ ~session.isActive
    /\ NavigateTo

----
\* Specifications

NextCaged ==
    \/ SetChord
    \/ SetChordQuality
    \/ NextPosition
    \/ PreviousPosition
    \/ SetPosition
    \/ ToggleShowAllShapes
    \/ ToggleShowPentatonic
    \/ ToggleShowAllNotes
    \/ QueryCell
    \/ CallGetShapeFret

\* the controls and the keyboard of the visualizer page
NextKeyboard ==
    \/ SetChord
    \/ SetChordQuality
    \/ NextPosition
    \/ PreviousPosition
    \/ SetPosition
    \/ ToggleShowAllShapes
    \/ ToggleShowPentatonic
    \/ ToggleShowAllNotes
    \/ KeyPress

NextModes ==
    \/ NavigateTo
    \/ CallCalculateModePattern
    \/ CallGetOptimalDisplayRange

\* the reducer of the modes page under every action creator
NextModeState ==
    \/ NavigateTo
    \/ SetMode
    \/ SetRootPosition
    \/ SetRootNote
    \/ ToggleNoteNames
    \/ ToggleHighlightRoot
    \/ ResetState
    \/ SetFullState
    \/ NextMode
    \/ PreviousMode
    \/ NextRootPosition
    \/ PreviousRootPosition

NextPitch ==
    \/ NavigateTo
    \/ CallNoteToNumber
    \/ CallGetInterval
    \/ CallTransposeNote
    \/ CallTransposeIntervals

NextQuiz ==
    \/ NavigateTo
    \/ LoadPreferences
    \/ UpdateQuestionCount
    \/ UpdateAllowedChords
    \/ UpdateAllowedShapes
    \/ StartNewQuiz
    \/ ResetQuiz

NextSession ==
    \/ NavigateTo
    \/ LoadPreferences
    \/ StartNewQuiz
    \/ SubmitAnswer
    \/ AutoAdvance
    \/ ResetQuiz

\* a user who answers every question once and waits for the next one
NextOrderly ==
    \/ OrderlyNavigate
    \/ LoadPreferences
    \/ StartNewQuiz
    \/ OrderlySubmit
    \/ AutoAdvance

Next ==
    \/ NextCaged
    \/ NextKeyboard
    \/ NextModes
    \/ NextModeState
    \/ NextPitch
    \/ NextQuiz
    \/ NextSession

NextResolver ==
    \/ NavigateTo
    \/ SetChord
    \/ LoadPreferences
    \/ UpdateQuestionCount
    \/ UpdateAllowedChords
    \/ UpdateAllowedShapes
    \/ StartNewQuiz
    \/ ResetQuiz

\* the whole application
Spec == Init /\ [][Next]_vars

\* the visualizer page alone
SpecCaged == Init /\ [][NextCaged]_vars

\* the modes page, reached by navigation
SpecModes == Init /\ [][NextModes]_vars

\* the visualizer under clicks and key presses
SpecKeyboard == Init /\ [][NextKeyboard]_vars

\* the pitch-class helpers of the modes system
SpecModeState == Init /\ [][NextModeState]_vars

\* the timers fire, and the user goes on answering
SpecOrderly ==
    /\ Init
    /\ [][NextOrderly]_vars
    /\ WF_vars(OrderlySubmit)
    /\ WF_vars(AutoAdvance)

SpecPitch == Init /\ [][NextPitch]_vars

\* the quiz page, reached by navigation
SpecQuiz == Init /\ [][NextQuiz]_vars

\* a quiz session run with the stored preferences
SpecSession == Init /\ [][NextSession]_vars

\* the two users of the position resolver: chord selection and the quiz
SpecResolver == Init /\ [][NextResolver]_vars

----
\* Position resolver

\* the offset the visualizer uses for a shape of the selected chord
offsetOf(shapeKey) == shapePositions(selectedChord)[shapeKey]

\* the pitch class sounded on a string of STRING_TUNING at a fret
pitchAt(stringIndex, fret) == (At(STRING_TUNING, stringIndex) + fret) % 12

(* C1: for every target root and every shape the fret offset is an integer  *)
(* of 0..11 that moves the shape's own root onto the target root (that is,  *)
(* it equals (root - shape + 12) mod 12); root A with shape C gives 9, root *)
(* C with shape C gives 0; and every generated quiz question stores the     *)
(* same offset as its position.                                             *)
C1_OffsetFormula ==
    /\ \A shapeKey \in Chords :
            /\ offsetOf(shapeKey) \in 0..11
            /\ (CHROMATIC_VALUES[shapeKey] + offsetOf(shapeKey)) % 12
                    = CHROMATIC_VALUES[selectedChord]
    /\ selectedChord = "A" => offsetOf("C") = 9
    /\ selectedChord = "C" => offsetOf("C") = 0
    /\ \A k \in 1..Len(questions) :
            LET q == questions[k]
            IN  (q.rootChord \in Chords /\ q.shapeUsed \in Chords) =>
                    /\ q.position \in 0..11
                    /\ (CHROMATIC_VALUES[q.shapeUsed] + q.position) % 12
                            = CHROMATIC_VALUES[q.rootChord]
                    /\ q.position = shapePositions(q.rootChord)[q.shapeUsed]

\* a quiz asked for the chord A played with the C shape, nine frets up
C1_Witness ==
    \E k \in 1..Len(questions) :
        /\ questions[k].rootChord = "A"
        /\ questions[k].shapeUsed = "C"
        /\ questions[k].position = 9

(* C2: for every root, shape and quality, each string listed in the shape's *)
(* rootNotes sounds the root's pitch class at the fret getShapeFret returns *)
(* for the shape's offset.                                                  *)
C2_RootStringsSoundRoot ==
    \A shapeKey \in Chords, stringIndex \in 0..5 :
        Includes(CAGED_SHAPES_BY_QUALITY[chordQuality][shapeKey].rootNotes, stringIndex) =>
            pitchAt(stringIndex,
                    getShapeFret(chordQuality, shapeKey, stringIndex, offsetOf(shapeKey)))
                = CHROMATIC_VALUES[selectedChord]

\* getShapeFret was asked for a root string of a minor shape moved up the neck
C2_Witness ==
    /\ probe.kind = "fret"
    /\ chordQuality = "minor"
    /\ probe.basePosition = offsetOf(probe.shapeKey)
    /\ probe.basePosition > 0
    /\ Includes(CAGED_MINOR_SHAPE_DATA[probe.shapeKey].rootNotes, probe.stringIndex)
    /\ pitchAt(probe.stringIndex, probe.fret) = CHROMATIC_VALUES[selectedChord]

\* the chord intervals of a quality
chordIntervals(quality) ==
    IF quality = "major" THEN MAJOR_CHORD_INTERVALS ELSE MINOR_CHORD_INTERVALS

(* C3: for every root, shape and quality, every played string of the shape  *)
(* sounds a chord tone of the root: its interval from the root is one of    *)
(* 0, 4, 7 for major and one of 0, 3, 7 for minor.                          *)
C3_PlayedStringsAreChordTones ==
    \A shapeKey \in Chords, stringIndex \in 0..5 :
        LET fret == getShapeFret(chordQuality, shapeKey, stringIndex, offsetOf(shapeKey))
        IN  At(CAGED_SHAPES_BY_QUALITY[chordQuality][shapeKey].pattern, stringIndex) # -1 =>
                Includes(chordIntervals(chordQuality),
                         (pitchAt(stringIndex, fret) + 12 - CHROMATIC_VALUES[selectedChord]) % 12)

(* C4: for a played pattern value p and an offset o of 0..11, getShapeFret  *)
(* returns 0 when p = 0 and o = 0, o when p = 0 and o > 0, and p + o in     *)
(* every other case.                                                        *)
C4_GetShapeFretCases ==
    (probe.kind = "fret" /\ probe.patternFret >= 0) =>
        /\ (probe.patternFret = 0 /\ probe.basePosition = 0) => probe.fret = 0
        /\ (probe.patternFret = 0 /\ probe.basePosition > 0) => probe.fret = probe.basePosition
        /\ probe.patternFret > 0 => probe.fret = probe.patternFret + probe.basePosition

\* getShapeFret was asked for an open string of a shape moved up: a barre
C4_Witness ==
    /\ probe.kind = "fret"
    /\ probe.patternFret = 0
    /\ probe.basePosition > 0
    /\ probe.fret = probe.basePosition

----
\* Mode patterns

\* the pitch classes of a mode at a root: (r + i) mod 12 for the mode's intervals i
modePitchClasses(mode, rootNote) ==
    {(NOTE_TO_NUMBER[rootNote] + MODE_INTERVALS[mode][k]) % 12 :
        k \in 1..Len(MODE_INTERVALS[mode])}

\* the cells (string, fret) a list of positions covers
cellsOf(positions) ==
    {<<positions[k].string, positions[k].fret>> : k \in 1..Len(positions)}

\* the distinct notes of a list of positions
notesOf(positions) == {positions[k].note : k \in 1..Len(positions)}

----
\* Fretboard predicates

\* the shape the visualizer shows in single-shape mode
currentShape == At(getCagedSequence(selectedChord), currentPosition)

\* the frets of the displayed neck and the queries at and below the nut
QueriedFrets == (0 - BelowNut)..MaxFret

(* C6: a chord dot is never signalled for a fret query <= 0: in single-shape *)
(* mode shouldShowDot is true exactly when getShapeFret of the current shape *)
(* on the string equals the queried fret and that fret is >= 1, and in       *)
(* all-shapes mode getShapesAtPosition is empty for every fret <= 0.         *)
C6_NoDotAtOrBelowNut ==
    probe.kind = "cell" =>
        /\ ~showAllShapes =>
                (probe.dot <=>
                    /\ getShapeFret(chordQuality, currentShape, probe.stringIndex,
                                    offsetOf(currentShape)) = probe.fretNumber
                    /\ probe.fretNumber >= 1)
        /\ probe.fretNumber <= 0 => (probe.shapesHere = <<>> /\ ~probe.dot)

\* fret 0 was queried on a string the current shape leaves open: no dot
C6_Witness ==
    /\ probe.kind = "cell"
    /\ ~showAllShapes
    /\ probe.fretNumber = 0
    /\ getShapeFret(chordQuality, currentShape, probe.stringIndex, offsetOf(currentShape)) = 0
    /\ ~probe.dot
    /\ probe.shapesHere = <<>>

(* C7: for every root, quality and shape, the realized chord shape has at   *)
(* least one cell for which isRootNote is true.                             *)
C7_EveryShapeHasRootCell ==
    \E stringIndex \in 0..5, fretNumber \in QueriedFrets :
        isRootNote(selectedChord, chordQuality, currentPosition, FALSE,
                   stringIndex, fretNumber)

\* the shapes of the selected chord that show a dot at a cell in single-shape mode
shapesShowingDot(stringIndex, fretNumber) ==
    {At(getCagedSequence(selectedChord), position) :
        position \in {p \in 0..(Len(getCagedSequence(selectedChord)) - 1) :
            shouldShowDot(selectedChord, chordQuality, p, FALSE, stringIndex, fretNumber)}}

(* C8: in all-shapes mode a dot is shown at a cell exactly when at least    *)
(* one of the 5 shapes shows a dot there in single-shape mode, and          *)
(* getShapesAtPosition returns exactly the shapes for which that            *)
(* single-shape predicate holds, each at most once.                         *)
C8_AllShapesIsUnion ==
    probe.kind = "cell" =>
        LET holding == shapesShowingDot(probe.stringIndex, probe.fretNumber)
        IN  /\ Elems(probe.shapesHere) = holding
            /\ Len(probe.shapesHere) = Cardinality(holding)
            /\ showAllShapes => (probe.dot <=> holding # {})

\* a cell shared by two shapes was queried in all-shapes mode
C8_Witness ==
    /\ probe.kind = "cell"
    /\ showAllShapes
    /\ probe.dot
    /\ Len(probe.shapesHere) >= 2
    /\ Elems(probe.shapesHere) = shapesShowingDot(probe.stringIndex, probe.fretNumber)

\* the shapes found at every cell of the neck, for every root and quality
OverlapTable ==
    [chord \in Chords, quality \in Qualities, stringIndex \in 0..5, fretNumber \in QueriedFrets |->
        getShapesAtPosition(chord, quality, getCagedSequence(chord), stringIndex, fretNumber)]

(* C9: the overlap style is order-stable: whenever the same set of shapes   *)
(* occupies a cell in all-shapes mode, for whatever root, quality and cell, *)
(* the colour bands come in the same order.                                 *)
C9_OverlapOrderStable ==
    (probe.kind = "cell" /\ showAllShapes /\ Len(probe.shapesHere) >= 2) =>
        \A entry \in DOMAIN OverlapTable :
            Elems(OverlapTable[entry]) = Elems(probe.shapesHere) =>
                createGradientStyle(entry[2], OverlapTable[entry]) = probe.style

\* two shapes found at a cell where the same pair is also found for another root
C9_Witness ==
    /\ probe.kind = "cell"
    /\ showAllShapes
    /\ Len(probe.shapesHere) >= 2
    /\ probe.style.kind = "split"
    /\ \E entry \in DOMAIN OverlapTable :
            /\ entry[1] # selectedChord
            /\ Elems(OverlapTable[entry]) = Elems(probe.shapesHere)
            /\ createGradientStyle(entry[2], OverlapTable[entry]).colors = probe.style.colors

\* the shape that follows a shape in the fixed cycle
nextInCycle(shapeKey) ==
    At(FULL_CAGED_SEQUENCE,
       (IndexOf(FULL_CAGED_SEQUENCE, shapeKey) + 1) % Len(FULL_CAGED_SEQUENCE))

(* C10: for each of the 5 roots the shape sequence is the cycle C, A, G, E, *)
(* D rotated to start at the root: 5 distinct shapes, the first the root's  *)
(* own letter, the cyclic order kept (C: CAGED, A: AGEDC, G: GEDCA,         *)
(* E: EDCAG, D: DCAGE).                                                     *)
C10_RotatedSequence ==
    LET cagedSequence == getCagedSequence(selectedChord)
    IN  /\ Len(cagedSequence) = 5
        /\ Cardinality(Elems(cagedSequence)) = 5
        /\ cagedSequence[1] = selectedChord
        /\ \A k \in 1..4 : cagedSequence[k + 1] = nextInCycle(cagedSequence[k])
        /\ cagedSequence =
            CASE selectedChord = "C" -> <<"C", "A", "G", "E", "D">>
              [] selectedChord = "A" -> <<"A", "G", "E", "D", "C">>
              [] selectedChord = "G" -> <<"G", "E", "D", "C", "A">>
              [] selectedChord = "E" -> <<"E", "D", "C", "A", "G">>
              [] selectedChord = "D" -> <<"D", "C", "A", "G", "E">>

\* the chord E is selected and the visualizer has stepped to its last shape, G
C10_Witness ==
    /\ selectedChord = "E"
    /\ currentPosition = 4
    /\ currentShape = "G"

----
\* Mode positions

----
\* Quiz questions

\* how many times a value occurs in an array
occurrences(a, value) == Cardinality({k \in 1..Len(a) : a[k] = value})

C13_AllFiveChoices ==
    validateQuizConfig(quizConfig) =>
        \A k \in 1..Len(questions) :
            /\ Len(questions[k].choices) = 5
            /\ Elems(questions[k].choices) = Chords

(* C14: generateQuestions called with an invalid configuration              *)
(* (questionCount < 1, or empty allowedChords, or empty allowedShapes)      *)
(* produces zero questions, and no list it returns holds a degenerate       *)
(* question, one whose rootChord or shapeUsed is undefined.                 *)
C14_InvalidConfigYieldsNoQuestions ==
    /\ (\/ quizConfig.questionCount < 1
         \/ quizConfig.allowedChords = <<>>
         \/ quizConfig.allowedShapes = <<>>) => questions = <<>>
    /\ \A k \in 1..Len(questions) :
            /\ questions[k].rootChord # Undefined
            /\ questions[k].shapeUsed # Undefined

----
\* Stored preferences

(* C15: a stored preferences object whose questionCount is out of range or  *)
(* whose allowedChords or allowedShapes hold a value outside C, A, G, E, D  *)
(* is rejected by validation: it never becomes the active preferences nor   *)
(* the configuration questions are generated from.                          *)
C15_InvalidPreferencesRejected ==
    isLoaded =>
        /\ quizConfig.questionCount >= 1
        /\ Elems(quizConfig.allowedChords) \subseteq Chords
        /\ Elems(quizConfig.allowedShapes) \subseteq Chords
        /\ \A k \in 1..Len(questions) :
                /\ questions[k].rootChord \in Chords
                /\ questions[k].shapeUsed \in Chords

----
\* Quiz session

(* C16: a quiz session advances one question at a time: every question      *)
(* receives exactly one recorded answer, in order, none is skipped or       *)
(* answered twice, also when submitAnswer is invoked again before the       *)
(* auto-advance of the previous submission has fired, and a completed       *)
(* session holds one answer for each of its questions.                      *)
C16_OneAnswerPerQuestion ==
    /\ Len(session.answers) <= Len(questions)
    /\ \A k \in 1..Len(session.answers) :
            k <= Len(questions) => session.answers[k].questionId = questions[k].id
    /\ session.currentQuestionIndex <= Len(session.answers)
    /\ session.currentQuestionIndex <= Len(questions)
    /\ session.isCompleted => Len(session.answers) = session.totalQuestions

----
\* Pitch-class helpers

(* C17: every pitch-class result of the pitch helpers is in 0..11 and never *)
(* negative, for all integer inputs and negative shifts too: getInterval,   *)
(* the note index behind transposeNote, and every element of the result of  *)
(* transposeIntervals.                                                      *)
C17_PitchClassesInRange ==
    /\ modeCall.kind = "getInterval" => modeCall.value \in 0..11
    /\ modeCall.kind = "transposeNote" =>
            /\ modeCall.value \in Elems(CHROMATIC_NOTES)
            /\ IndexOf(CHROMATIC_NOTES, modeCall.value) \in 0..11
    /\ modeCall.kind = "transposeIntervals" =>
            \A k \in 1..Len(modeCall.value) : modeCall.value[k] \in 0..11

(* C18: noteToNumber fails with an InvalidNote error for every name that is *)
(* not one of the 12 names of the chromatic table; it never returns a value *)
(* for such a name.                                                         *)
C18_UnknownNoteFails ==
    (modeCall.kind = "noteToNumber" /\ modeCall.note \notin Elems(CHROMATIC_NOTES)) =>
        modeCall.threw

(* C19: computing a mode pattern for a root that is not one of the 12       *)
(* chromatic notes fails with an error: calculateModePattern never returns  *)
(* a pattern object, empty or partially filled, for it.                     *)
C19_InvalidRootFails ==
    (modeCall.kind = "pattern" /\ modeCall.pattern.rootNote \notin Elems(CHROMATIC_NOTES)) =>
        modeCall.threw

----
\* Display range

\* the frets, up to the default neck length, where some string sounds a pitch class
fretsSounding(pitchClass) ==
    {f \in 0..DEFAULT_MAX_FRETS :
        \E stringIndex \in 0..5 : (At(STANDARD_TUNING, stringIndex) + f) % 12 = pitchClass}

(* C20: for every mode and root getOptimalDisplayRange returns              *)
(* startFret = max(0, minRootFret - 2) and endFret = min(MAX_FRET,          *)
(* maxRootFret + 2), for the smallest and largest fret of a root position;  *)
(* so 0 <= startFret <= endFret <= MAX_FRET and every root position lies    *)
(* inside the range.                                                        *)
C20_OptimalDisplayRange ==
    (modeCall.kind = "displayRange" /\ modeCall.rootNote \in Elems(CHROMATIC_NOTES)) =>
        LET rootFrets == fretsSounding(NOTE_TO_NUMBER[modeCall.rootNote])
            minRootFret == CHOOSE f \in rootFrets : \A g \in rootFrets : f <= g
            maxRootFret == CHOOSE f \in rootFrets : \A g \in rootFrets : f >= g
            range == modeCall.range
        IN  /\ rootFrets # {}
            /\ range.startFret = (IF minRootFret - 2 > 0 THEN minRootFret - 2 ELSE 0)
            /\ range.endFret = (IF maxRootFret + 2 < MAX_FRET THEN maxRootFret + 2 ELSE MAX_FRET)
            /\ 0 <= range.startFret
            /\ range.startFret <= range.endFret
            /\ range.endFret <= MAX_FRET
            /\ \A f \in rootFrets : range.startFret <= f /\ f <= range.endFret

\* the range of Dorian at E: roots on the open strings and at fret 14
C20_Witness ==
    /\ modeCall.kind = "displayRange"
    /\ modeCall.mode = "dorian"
    /\ modeCall.rootNote = "E"
    /\ modeCall.range = [startFret |-> 0, endFret |-> MAX_FRET]

----
\* Mode interval table

\* the steps between consecutive intervals, as validateMusicTheoryAccuracy takes them
intervalSteps(intervals) ==
    [i \in 1..(Len(intervals) - 1) |-> intervals[i + 1] - intervals[i]]

(* C21: each of the 7 interval lists of MODE_INTERVALS has 7 distinct       *)
(* values, starts at 0, is strictly increasing, has every consecutive step  *)
(* equal to 1 or 2 semitones, and spans 11 semitones from its first to its  *)
(* last interval.                                                           *)
C21_ModeIntervalsShape ==
    modeCall.kind = "pattern" =>
        LET intervals == MODE_INTERVALS[modeCall.pattern.mode]
            steps == intervalSteps(intervals)
        IN  /\ Len(intervals) = 7
            /\ Cardinality(Elems(intervals)) = 7
            /\ intervals[1] = 0
            /\ \A i \in 1..Len(steps) : steps[i] \in {1, 2}
            /\ intervals[Len(intervals)] - intervals[1] = 11

----
\* Position of the visualizer

(* C22: from the initial CAGED state, after any sequence of the events a    *)
(* user can cause (chord and quality selection, next and previous, the 5    *)
(* position buttons, number keys 1-5, arrow keys and the three toggles),    *)
(* currentPosition is an integer from 0 to 4, so that                       *)
(* cagedSequence[currentPosition] is always a defined shape.                *)
C22_PositionInRange ==
    /\ currentPosition \in 0..4
    /\ currentShape \in Chords

\* ArrowLeft at the first position wraps around to the last one
C22_Witness ==
    /\ lastEvent.kind = "key"
    /\ lastEvent.key = "ArrowLeft"
    /\ lastEvent.before.currentPosition = 0
    /\ currentPosition = 4
    /\ currentShape \in Chords

----
\* Modes state

(* C23: from DEFAULT_MODE_STATE, every state the modes reducer reaches by   *)
(* any sequence of actions with arbitrary payloads (unknown mode names,     *)
(* root positions outside 0..11, unknown root notes, arbitrary              *)
(* SET_FULL_STATE payloads) satisfies validateModeState: currentMode is one *)
(* of the 7 modes, rootPosition is from 0 to 11, and showNoteNames and      *)
(* highlightRoot are booleans.                                              *)
C23_ModeStateStaysValid ==
    validateModeState(modeState)

----
\* Quiz flow

\* the timer callback that fires in this step calls finishQuiz
finishQuizCalled ==
    /\ timers # <<>>
    /\ timers' = Tail(timers)
    /\ isLastQuestion(Head(timers))

\* the answers so far are those of questions 1, 2, ... in order, and the
\* question presented is the one after the last answered
answeredInOrder ==
    /\ \A k \in 1..Len(session.answers) : session.answers[k].questionId = k
    /\ Len(session.answers) <= session.totalQuestions
    /\ (session.isActive /\ timers = <<>>) =>
            /\ Len(session.answers) = session.currentQuestionIndex
            /\ hasCurrentQuestion
            /\ currentQuestion.id = session.currentQuestionIndex + 1
    /\ session.isCompleted =>
            /\ Len(session.answers) = session.totalQuestions
            /\ getResults.kind = "results"

(* C24: after startNewQuiz with questionCount = n >= 1, when the user       *)
(* submits one answer to each presented question and every auto-advance     *)
(* timer fires before the next submission, the session presents questions   *)
(* 1..n in order, finishQuiz is called exactly once, by the timer of the    *)
(* n-th submission, and the session eventually reaches the completed state, *)
(* after which getResults returns a result that is not null.                *)
C24_OrderlyQuizCompletes ==
    /\ [] answeredInOrder
    /\ [][finishQuizCalled =>
            /\ ~session.isCompleted
            /\ session'.isCompleted
            /\ Len(session.answers) = session.totalQuestions]_vars
    /\ (session.isActive /\ session.totalQuestions >= 1) ~> session.isCompleted

\* a quiz of the largest number of questions has been completed
C24_Witness ==
    /\ session.isCompleted
    /\ session.totalQuestions = MaxQuestionCount
    /\ Len(session.answers) = MaxQuestionCount
    /\ getResults.kind = "results"

\* no answer was submitted to the session since it was reset or started, so
\* a pending timer was scheduled before the reset or the start
timerIsStale ==
    /\ timers # <<>>
    /\ Len(session.answers) = 0
    /\ ~session.isCompleted

(* C25: an auto-advance timer scheduled by submitAnswer that fires after    *)
(* resetQuiz or startNewQuiz was called has no effect on the reset or newly *)
(* started session: it neither advances the question index of that session *)
(* nor marks it completed.                                                  *)
C25_StaleTimerHasNoEffect ==
    [][(timerIsStale /\ AutoAdvance) =>
            /\ session'.currentQuestionIndex = session.currentQuestionIndex
            /\ session'.isCompleted = session.isCompleted]_vars

----
\* Walking the shapes up the neck

\* the fret offsets of the shapes of the selected chord, in the order of its
\* shape sequence
offsetsInSequence ==
    LET cagedSequence == getCagedSequence(selectedChord)
    IN  [k \in 1..Len(cagedSequence) |-> shapePositions(selectedChord)[cagedSequence[k]]]

(* C26: for every root chord, walking the shape sequence of the root from   *)
(* first to last visits the 5 shapes at strictly increasing fret offsets    *)
(* that start at offset 0 (the first shape is the open-position shape and   *)
(* each next shape lies further up the neck); the 5 offsets are pairwise    *)
(* distinct.                                                                *)
C26_OffsetsIncreaseAlongSequence ==
    /\ Len(offsetsInSequence) = 5
    /\ offsetsInSequence[1] = 0
    /\ \A k \in 1..4 : offsetsInSequence[k] < offsetsInSequence[k + 1]
    /\ Cardinality(Elems(offsetsInSequence)) = 5

\* the chord G was walked to its last shape, A, which lies at offset 10
C26_Witness ==
    /\ selectedChord = "G"
    /\ currentPosition = 4
    /\ lastEvent.kind = "click"
    /\ lastEvent.key = "next"
    /\ lastEvent.before.currentPosition = 3
    /\ offsetsInSequence = <<0, 3, 5, 7, 10>>

----
\* Frame of the modes actions

\* the fields of the mode state that the last dispatch changed
changedFields ==
    LET before == lastModeAction.before
    IN  {field \in {"currentMode", "rootPosition"} : before[field] # modeState[field]}
        \cup {field \in {"showNoteNames", "highlightRoot"} :
                ~sameFlag(before[field], modeState[field])}

(* C27: each single-field action of the modes reducer changes only its own  *)
(* field: SET_MODE leaves rootPosition, showNoteNames and highlightRoot      *)
(* unchanged; SET_ROOT_POSITION leaves currentMode and both flags            *)
(* unchanged; TOGGLE_NOTE_NAMES changes only showNoteNames;                  *)
(* TOGGLE_HIGHLIGHT_ROOT changes only highlightRoot.                         *)
C27_SingleFieldActions ==
    lastModeAction.kind = "dispatch" =>
        /\ lastModeAction.type = "SET_MODE" => changedFields \subseteq {"currentMode"}
        /\ lastModeAction.type = "SET_ROOT_POSITION" => changedFields \subseteq {"rootPosition"}
        /\ lastModeAction.type = "TOGGLE_NOTE_NAMES" => changedFields = {"showNoteNames"}
        /\ lastModeAction.type = "TOGGLE_HIGHLIGHT_ROOT" => changedFields = {"highlightRoot"}

\* SET_MODE changed the mode of a state whose other fields are not the defaults
C27_Witness ==
    /\ lastModeAction.kind = "dispatch"
    /\ lastModeAction.type = "SET_MODE"
    /\ changedFields = {"currentMode"}
    /\ modeState.rootPosition = 5
    /\ modeState.showNoteNames = JsBoolean(FALSE)

----
\* Keyboard shortcuts

\* the last event was a key press of the given keys
keyPressed(keys) == lastEvent.kind = "key" /\ lastEvent.key \in keys

(* C28: while showAllShapes is true, ArrowLeft, ArrowRight and the number   *)
(* keys 1-5 leave currentPosition unchanged; these keys change the position *)
(* only in single-shape mode; a key event whose target is an input or a     *)
(* textarea never changes any CAGED state.                                  *)
C28_KeysRespectViewMode ==
    /\ (keyPressed(ArrowKeys \cup NumberKeys) /\ lastEvent.before.showAllShapes) =>
            currentPosition = lastEvent.before.currentPosition
    /\ (keyPressed(ArrowKeys \cup NumberKeys)
            /\ currentPosition # lastEvent.before.currentPosition) =>
            /\ ~lastEvent.before.showAllShapes
            /\ ~showAllShapes
    /\ (keyPressed(Keys) /\ lastEvent.target \in InputTargets) =>
            cagedState = lastEvent.before

\* ArrowRight was pressed on the page body at position 2 while all shapes
\* were shown, and the position is still 2
C28_Witness ==
    /\ keyPressed({"ArrowRight"})
    /\ lastEvent.target = "body"
    /\ lastEvent.before.showAllShapes
    /\ lastEvent.before.currentPosition = 2
    /\ currentPosition = 2

----
\* Frame of the chord and quality selection

\* the last event dispatched exactly one action, of the given type
dispatchedOnly(type) ==
    /\ lastEvent.kind # "none"
    /\ lastEvent.dispatched = <<type>>

(* C29: SET_CHORD and SET_CHORD_QUALITY each reset currentPosition to 0     *)
(* from any prior position and change nothing else except the selected      *)
(* chord or the quality respectively: showAllShapes, showPentatonic and      *)
(* showAllNotes are preserved.                                               *)
C29_SelectionResetsPosition ==
    /\ dispatchedOnly("SET_CHORD") =>
            cagedState = [lastEvent.before EXCEPT !.selectedChord = selectedChord,
                                                  !.currentPosition = 0]
    /\ dispatchedOnly("SET_CHORD_QUALITY") =>
            cagedState = [lastEvent.before EXCEPT !.chordQuality = chordQuality,
                                                  !.currentPosition = 0]

\* the chord was changed at position 3 with all three toggles on
C29_Witness ==
    /\ dispatchedOnly("SET_CHORD")
    /\ lastEvent.before.currentPosition = 3
    /\ lastEvent.before.selectedChord # selectedChord
    /\ currentPosition = 0
    /\ showAllShapes /\ showPentatonic /\ showAllNotes

----
\* Loading the stored preferences

\* a step in which the load effect of useQuizPreferences finishes
loadFinishes == ~isLoaded /\ isLoaded'

\* the preferences a valid stored object is adopted as
adoptedPreferences ==
    {parsedPreferences(stored) : stored \in {o \in StoredObjects : isValidPreferences(o)}}

====
